---- MODULE Spec2Model ----
(***************************************************************************)
(* Multisig transaction approval engine of stellarspend-contracts:         *)
(* contracts/multisig.rs (signer registry, approval marks and counts) and  *)
(* contracts/transactions.rs (TransactionsContract: routing, approval,     *)
(* ledger).                                                                *)
(*                                                                         *)
(* Every entry point is one action.  A contract call that panics           *)
(* (panic_with_error!) is aborted by the host and none of its storage      *)
(* writes persist, so an entry point is modelled as an operator from the   *)
(* storage before the call to an outcome [err, st, ret]; the action        *)
(* commits st only when err = "Ok".  require_auth is the host's identity   *)
(* check: calls are modelled with the authorisation of the account they    *)
(* name, as the tests run them (mock_all_auths).                           *)
(***************************************************************************)
EXTENDS Integers, Sequences, FiniteSets, TLC

\* ---------------------------------------------------------------- bounds
\* i128::MAX at a small width: amounts and balances are i128 in the source.
I128_MAX == 2
\* u64::MAX at a small width: the transaction id counter is u64.
U64_MAX == 2
\* pending transactions created in the runs of Spec (SpecIds runs the counter
\* up to U64_MAX)
MaxPending == 1
\* longest signer list handed to set_signers
MaxSigners == 2

\* u32::MAX at a small width: approval counts are u32 (above the number of
\* addresses, as in the source, where 2^32 distinct signers never approve)
U32_MAX == 4

Address == {"a1", "a2", "a3"}
\* the account handed to initialize
AdminChoices == {"a1"}
\* the accounts that call the admin entry points: the admin and another one
Callers == {"a1", "a2"}
\* the accounts that hold balances, send and receive
Accounts == {"a1", "a2"}
NoAdmin == "none"
\* Option values: None, Some(x)
None == <<>>
Some(x) == <<x>>
Payloads == {"pay"}
Assets == {None}
Timestamps == {0}

Amounts == -1 .. I128_MAX
TxIds == 0 .. U64_MAX + 1
SignerLists == UNION {[1 .. n -> Address] : n \in 0 .. MaxSigners}
ThresholdInputs == 0 .. MaxSigners + 1

VARIABLES
    Admin,                \* DataKey::Admin (NoAdmin: key absent)
    Signers,              \* DataKey::Signers
    Threshold,            \* DataKey::Threshold
    HighValueThreshold,   \* DataKey::HighValueThreshold
    NextTxId,             \* DataKey::NextTxId
    PendingTx,            \* DataKey::PendingTx(id) -> PendingTx record
    Approval,             \* set of <<id, signer>>: keys DataKey::Approval(id, signer)
    ApprovalCount,        \* DataKey::ApprovalCount(id) -> u32
    Balance,              \* DataKey::Balance(user) -> i128 (0: absent or zero)
    ExecutedEvents        \* id >= 1 -> number of published (tx, executed, id) events

\* storage of ThrottleContract (contracts/throttling.rs) and the ledger time
VARIABLES
    ThrottleAdmin,        \* DataKey::Admin of throttling.rs (NoAdmin: key absent)
    ThrottleConfig,       \* DataKey::ThrottleConfig (None: key absent)
    WalletThrottleState,  \* DataKey::WalletThrottleState(wallet) -> record
    GlobalThrottleStats,  \* DataKey::GlobalThrottleStats (None: key absent)
    ThrottledWallets,     \* DataKey::ThrottledWallets
    ledger_timestamp      \* env.ledger().timestamp()

\* the callers' schedule: TRUE once the administrator and the senders have
\* made their last call, so that only approve calls follow
VARIABLES
    frozen

\* the keys of TransactionsContract and of ThrottleContract
multisig_vars == <<Admin, Signers, Threshold, HighValueThreshold, NextTxId, PendingTx,
                   Approval, ApprovalCount, Balance, ExecutedEvents>>
throttle_vars == <<ThrottleAdmin, ThrottleConfig, WalletThrottleState,
                   GlobalThrottleStats, ThrottledWallets, ledger_timestamp>>

vars == <<Admin, Signers, Threshold, HighValueThreshold, NextTxId, PendingTx,
          Approval, ApprovalCount, Balance, ExecutedEvents,
          ThrottleAdmin, ThrottleConfig, WalletThrottleState,
          GlobalThrottleStats, ThrottledWallets, ledger_timestamp, frozen>>

\* the contract storage as one value, with the events the running call has
\* published so far (none when it starts)
Storage ==
    [Admin |-> Admin, Signers |-> Signers, Threshold |-> Threshold,
     HighValueThreshold |-> HighValueThreshold, NextTxId |-> NextTxId,
     PendingTx |-> PendingTx, Approval |-> Approval,
     ApprovalCount |-> ApprovalCount, Balance |-> Balance, Events |-> <<>>]

\* an outcome: st is the storage as the call has written it when it returns
\* or, for a panic, at the moment it panics
Ok(s, ret) == [err |-> "Ok", st |-> s, ret |-> ret]
Panic(s, e) == [err |-> e, st |-> s, ret |-> None]

\* ------------------------------------------------------------ multisig.rs
\* env.events().publish(topics, data)
publish(s, topics, data) ==
    [s EXCEPT !.Events = Append(@, [topics |-> topics, data |-> data])]

pending_created(s, tx) ==
    publish(s, <<"tx", "pending", tx.id>>, <<tx.from, tx.to, tx.amount, tx.asset>>)

approval_recorded(s, tx_id, signer, approvals_count, threshold) ==
    publish(s, <<"approve", "record", tx_id>>, <<signer, approvals_count, threshold>>)

\* transaction_executed publishing its event twice
transaction_executed_twice(s, tx, executor) ==
    LET once == publish(s, <<"tx", "executed", tx.id>>,
                        <<executor, tx.from, tx.to, tx.amount, tx.asset>>)
    IN  publish(once, <<"tx", "executed", tx.id>>,
                <<executor, tx.from, tx.to, tx.amount, tx.asset>>)

transaction_executed(s, tx, executor) ==
    publish(s, <<"tx", "executed", tx.id>>,
            <<executor, tx.from, tx.to, tx.amount, tx.asset>>)

get_signers(s) == s.Signers
get_threshold(s) == s.Threshold
get_high_value_threshold(s) == s.HighValueThreshold

\* initialize_state without its test for an admin already stored
initialize_state_again(s, admin) ==
    Ok([s EXCEPT !.Admin = admin, !.Signers = <<>>, !.Threshold = 0,
                 !.HighValueThreshold = I128_MAX, !.NextTxId = 0], None)

initialize_state(s, admin) ==
    IF s.Admin # NoAdmin THEN Panic(s, "AlreadyInitialized")
    ELSE Ok([s EXCEPT !.Admin = admin, !.Signers = <<>>, !.Threshold = 0,
                      !.HighValueThreshold = I128_MAX, !.NextTxId = 0], None)

\* require_admin that only checks that the contract is initialised
require_admin_any_caller(s, caller) ==
    IF s.Admin = NoAdmin THEN "NotInitialized" ELSE "Ok"

\* "Ok" or the error require_admin panics with
require_admin(s, caller) ==
    IF s.Admin = NoAdmin THEN "NotInitialized"
    ELSE IF s.Admin # caller THEN "Unauthorized"
    ELSE "Ok"

\* validate_signer_config without its pairwise duplicate scan
validate_signer_config_no_dup(signers, threshold) ==
    LET signer_count == Len(signers) IN
    IF signer_count = 0 \/ threshold = 0 \/ threshold > signer_count
    THEN "InvalidThreshold"
    ELSE "Ok"

\* validate_signer_config with >= for > in the threshold test
validate_signer_config_strict(signers, threshold) ==
    LET signer_count == Len(signers) IN
    IF signer_count = 0 \/ threshold = 0 \/ threshold >= signer_count
    THEN "InvalidThreshold"
    ELSE IF \E i \in 1 .. signer_count : \E j \in (i + 1) .. signer_count :
                signers[i] = signers[j]
    THEN "DuplicateSigner"
    ELSE "Ok"

\* validate_signer_config with the duplicate scan before the threshold test
validate_signer_config_dup_first(signers, threshold) ==
    LET signer_count == Len(signers) IN
    IF \E i \in 1 .. signer_count : \E j \in (i + 1) .. signer_count :
            signers[i] = signers[j]
    THEN "DuplicateSigner"
    ELSE IF signer_count = 0 \/ threshold = 0 \/ threshold > signer_count
    THEN "InvalidThreshold"
    ELSE "Ok"

\* "Ok" or the error validate_signer_config panics with
validate_signer_config(signers, threshold) ==
    LET signer_count == Len(signers) IN
    IF signer_count = 0 \/ threshold = 0 \/ threshold > signer_count
    THEN "InvalidThreshold"
    ELSE IF \E i \in 1 .. signer_count : \E j \in (i + 1) .. signer_count :
                signers[i] = signers[j]
    THEN "DuplicateSigner"
    ELSE "Ok"

\* set_signers that also discards the approvals recorded so far
set_signers_clearing_approvals(s, caller, signers, threshold) ==
    IF require_admin(s, caller) # "Ok" THEN Panic(s, require_admin(s, caller))
    ELSE IF validate_signer_config(signers, threshold) # "Ok"
    THEN Panic(s, validate_signer_config(signers, threshold))
    ELSE Ok([s EXCEPT !.Signers = signers, !.Threshold = threshold,
                      !.Approval = {},
                      !.ApprovalCount = [id \in DOMAIN @ |-> 0]], None)

set_signers(s, caller, signers, threshold) ==
    IF require_admin(s, caller) # "Ok" THEN Panic(s, require_admin(s, caller))
    ELSE IF validate_signer_config(signers, threshold) # "Ok"
    THEN Panic(s, validate_signer_config(signers, threshold))
    ELSE Ok([s EXCEPT !.Signers = signers, !.Threshold = threshold], None)

\* set_high_value_threshold without its test for a negative amount
set_high_value_threshold_any_amount(s, caller, amount) ==
    IF require_admin(s, caller) # "Ok" THEN Panic(s, require_admin(s, caller))
    ELSE Ok([s EXCEPT !.HighValueThreshold = amount], None)

set_high_value_threshold(s, caller, amount) ==
    IF require_admin(s, caller) # "Ok" THEN Panic(s, require_admin(s, caller))
    ELSE IF amount < 0 THEN Panic(s, "InvalidAmount")
    ELSE Ok([s EXCEPT !.HighValueThreshold = amount], None)

\* "Ok" or the error ensure_multisig_configured panics with
ensure_multisig_configured(s) ==
    LET signers == get_signers(s)
        threshold == get_threshold(s) IN
    IF Len(signers) = 0 \/ threshold = 0 \/ threshold > Len(signers)
    THEN "MultisigNotConfigured"
    ELSE "Ok"

is_signer(s, signer) ==
    \E i \in 1 .. Len(get_signers(s)) : get_signers(s)[i] = signer

\* require_signer with the test inverted
require_signer_inverted(s, signer) ==
    IF is_signer(s, signer) THEN "UnauthorizedSigner" ELSE "Ok"

require_signer(s, signer) ==
    IF ~is_signer(s, signer) THEN "UnauthorizedSigner" ELSE "Ok"

\* next_tx_id with wrapping_add for checked_add
next_tx_id_wrapping(s) ==
    LET current == s.NextTxId
        next == (current + 1) % (U64_MAX + 1)
    IN  Ok([s EXCEPT !.NextTxId = next], next)

\* next_tx_id that returns the next id without storing the counter
next_tx_id_not_stored(s) ==
    LET current == s.NextTxId IN
    IF current + 1 > U64_MAX THEN Panic(s, "Overflow")
    ELSE Ok(s, current + 1)

\* next_tx_id that hands out the counter's old value
next_tx_id_post_increment(s) ==
    LET current == s.NextTxId IN
    IF current + 1 > U64_MAX THEN Panic(s, "Overflow")
    ELSE Ok([s EXCEPT !.NextTxId = current + 1], current)

next_tx_id(s) ==
    LET current == s.NextTxId IN
    IF current + 1 > U64_MAX THEN Panic(s, "Overflow")
    ELSE Ok([s EXCEPT !.NextTxId = current + 1], current + 1)

\* has_approval reading the key of another transaction id
has_approval_wrong_key(s, tx_id, signer) == <<tx_id + 1, signer>> \in s.Approval

has_approval(s, tx_id, signer) == <<tx_id, signer>> \in s.Approval

get_approval_count(s, tx_id) ==
    IF tx_id \in DOMAIN s.ApprovalCount THEN s.ApprovalCount[tx_id] ELSE 0

\* storage write of one key of a keyed map
Put(f, k, v) == [x \in DOMAIN f \cup {k} |-> IF x = k THEN v ELSE f[x]]

\* record_approval that writes the mark but not the incremented count
record_approval_no_count(s, tx_id, signer) ==
    IF has_approval(s, tx_id, signer) THEN Panic(s, "DuplicateApproval")
    ELSE
        LET s1 == [s EXCEPT !.Approval = @ \cup {<<tx_id, signer>>}]
            current == get_approval_count(s1, tx_id)
            next == current + 1
        IN  IF next > U32_MAX THEN Panic(s1, "Overflow")
            ELSE Ok(s1, next)

record_approval(s, tx_id, signer) ==
    IF has_approval(s, tx_id, signer) THEN Panic(s, "DuplicateApproval")
    ELSE
        LET s1 == [s EXCEPT !.Approval = @ \cup {<<tx_id, signer>>}]
            current == get_approval_count(s1, tx_id)
            next == current + 1
        IN  IF next > U32_MAX THEN Panic(s1, "Overflow")
            ELSE Ok([s1 EXCEPT !.ApprovalCount = Put(@, tx_id, next)], next)

\* -------------------------------------------------------- transactions.rs
balance_of(s, user) == s.Balance[user]

\* execute_transfer that writes the debit before it checks the credit
execute_transfer_debit_first(s, from, to, amount) ==
    LET from_balance == balance_of(s, from) IN
    IF from_balance < amount THEN Panic(s, "InsufficientBalance")
    ELSE
        LET new_from_balance == from_balance - amount
            s1 == [s EXCEPT !.Balance[from] = new_from_balance]
            new_to_balance == balance_of(s1, to) + amount
        IN  IF new_to_balance > I128_MAX THEN Panic(s1, "Overflow")
            ELSE Ok([s1 EXCEPT !.Balance[to] = new_to_balance], None)

\* execute_transfer with an unchecked credit
execute_transfer_unchecked_credit(s, from, to, amount) ==
    LET from_balance == balance_of(s, from) IN
    IF from_balance < amount THEN Panic(s, "InsufficientBalance")
    ELSE
        LET to_balance == balance_of(s, to)
            s1 == [s EXCEPT !.Balance[from] = from_balance - amount]
        IN  Ok([s1 EXCEPT !.Balance[to] = to_balance + amount], None)

\* execute_transfer that credits the recipient without debiting the sender
execute_transfer_no_debit(s, from, to, amount) ==
    LET from_balance == balance_of(s, from) IN
    IF from_balance < amount THEN Panic(s, "InsufficientBalance")
    ELSE
        LET new_to_balance == balance_of(s, to) + amount IN
        IF new_to_balance > I128_MAX THEN Panic(s, "Overflow")
        ELSE Ok([s EXCEPT !.Balance[to] = new_to_balance], None)

execute_transfer(s, from, to, amount) ==
    LET from_balance == balance_of(s, from) IN
    IF from_balance < amount THEN Panic(s, "InsufficientBalance")
    ELSE
        LET to_balance == balance_of(s, to)
            new_from_balance == from_balance - amount
            new_to_balance == to_balance + amount
        IN  IF new_from_balance < -(I128_MAX + 1) THEN Panic(s, "Overflow")
            ELSE IF new_to_balance > I128_MAX THEN Panic(s, "Overflow")
            ELSE
                LET s1 == [s EXCEPT !.Balance[from] = new_from_balance]
                    s2 == [s1 EXCEPT !.Balance[to] = new_to_balance]
                IN  Ok(s2, None)

\* set_balance without its test for a negative amount
set_balance_any_amount(s, caller, user, amount) ==
    IF require_admin(s, caller) # "Ok" THEN Panic(s, require_admin(s, caller))
    ELSE Ok([s EXCEPT !.Balance[user] = amount], None)

set_balance(s, caller, user, amount) ==
    IF require_admin(s, caller) # "Ok" THEN Panic(s, require_admin(s, caller))
    ELSE IF amount < 0 THEN Panic(s, "InvalidAmount")
    ELSE Ok([s EXCEPT !.Balance[user] = amount], None)

\* the routing test of submit_transaction
is_low_value(amount, high_value_threshold) == amount < high_value_threshold

\* submit_transaction that requires a usable registry before it routes
submit_transaction_registry_first(s, from, to, amount, payload, asset, now) ==
    IF amount <= 0 THEN Panic(s, "InvalidAmount")
    ELSE IF ensure_multisig_configured(s) # "Ok"
    THEN Panic(s, ensure_multisig_configured(s))
    ELSE IF is_low_value(amount, get_high_value_threshold(s))
    THEN LET t == execute_transfer(s, from, to, amount) IN
         IF t.err # "Ok" THEN t ELSE Ok(t.st, None)
    ELSE LET n == next_tx_id(s) IN
         IF n.err # "Ok" THEN n
         ELSE LET tx_id == n.ret
                  pending_tx == [id |-> tx_id, from |-> from, to |-> to,
                                 amount |-> amount, payload |-> payload,
                                 asset |-> asset, created_at |-> now,
                                 executed |-> FALSE]
                  s1 == [n.st EXCEPT !.PendingTx = Put(@, tx_id, pending_tx)]
                  s2 == [s1 EXCEPT !.ApprovalCount = Put(@, tx_id, 0)]
              IN  Ok(s2, Some(tx_id))

submit_transaction(s, from, to, amount, payload, asset, now) ==
    IF amount <= 0 THEN Panic(s, "InvalidAmount")
    ELSE IF is_low_value(amount, get_high_value_threshold(s))
    THEN LET t == execute_transfer(s, from, to, amount)
             executed_tx == [id |-> 0, from |-> from, to |-> to,
                             amount |-> amount, payload |-> payload,
                             asset |-> asset, created_at |-> now,
                             executed |-> TRUE]
         IN  IF t.err # "Ok" THEN t
             ELSE Ok(transaction_executed(t.st, executed_tx, from), None)
    ELSE IF ensure_multisig_configured(s) # "Ok"
    THEN Panic(s, ensure_multisig_configured(s))
    ELSE LET n == next_tx_id(s) IN
         IF n.err # "Ok" THEN n
         ELSE LET tx_id == n.ret
                  pending_tx == [id |-> tx_id, from |-> from, to |-> to,
                                 amount |-> amount, payload |-> payload,
                                 asset |-> asset, created_at |-> now,
                                 executed |-> FALSE]
                  s1 == [n.st EXCEPT !.PendingTx = Put(@, tx_id, pending_tx)]
                  s2 == [s1 EXCEPT !.ApprovalCount = Put(@, tx_id, 0)]
              IN  Ok(pending_created(s2, pending_tx), Some(tx_id))

\* the quorum test with > for >=
quorum_reached_strict(approvals, threshold) == approvals > threshold

\* the quorum test that always passes
quorum_reached_always(approvals, threshold) == TRUE

\* the quorum test that never passes
quorum_reached_never(approvals, threshold) == FALSE

\* the quorum test of approve
quorum_reached(approvals, threshold) == approvals >= threshold

approve(s, tx_id, signer) ==
    IF require_signer(s, signer) # "Ok" THEN Panic(s, require_signer(s, signer))
    ELSE IF tx_id \notin DOMAIN s.PendingTx THEN Panic(s, "PendingTxNotFound")
    ELSE IF s.PendingTx[tx_id].executed THEN Panic(s, "AlreadyExecuted")
    ELSE LET r == record_approval(s, tx_id, signer) IN
         IF r.err # "Ok" THEN r
         ELSE LET approvals == r.ret
                  threshold == get_threshold(r.st)
                  s0 == approval_recorded(r.st, tx_id, signer, approvals, threshold)
              IN  IF quorum_reached(approvals, threshold)
                  THEN LET pending_tx == [s.PendingTx[tx_id] EXCEPT !.executed = TRUE]
                           s1 == [s0 EXCEPT !.PendingTx = Put(@, tx_id, pending_tx)]
                           t == execute_transfer(s1, pending_tx.from, pending_tx.to,
                                                 pending_tx.amount)
                       IN  IF t.err # "Ok" THEN t
                           ELSE Ok(transaction_executed(t.st, pending_tx, signer), None)
                  ELSE Ok(s0, None)

\* ------------------------------------------------------------ the machine
\* the storage after a call: the host keeps the writes of a call that returned
\* and drops the writes of a call that panicked
\* After without the host's rollback: the writes made before a panic persist
After_no_rollback(out) == out.st

After(out) == IF out.err = "Ok" THEN out.st ELSE Storage

\* the executed events among the events of a call that carry this id
ExecutedEventsOf(events, id) ==
    {i \in 1 .. Len(events) : events[i].topics = <<"tx", "executed", id>>}

\* the per-id numbers of executed events after a call has published its events
\* (ids of pending transactions: the events of immediate transfers carry id 0)
Tally(counts, events) ==
    LET ids == {events[i].topics[3] : i \in 1 .. Len(events)} \ {0} IN
    [id \in DOMAIN counts \cup
            {id \in ids : ExecutedEventsOf(events, id) # {}} |->
        (IF id \in DOMAIN counts THEN counts[id] ELSE 0)
            + Cardinality(ExecutedEventsOf(events, id))]

Commit(out) ==
    LET s == After(out) IN
    /\ ExecutedEvents' = Tally(ExecutedEvents, s.Events)
    /\ UNCHANGED <<throttle_vars, frozen>>
    /\ Admin' = s.Admin
    /\ Signers' = s.Signers
    /\ Threshold' = s.Threshold
    /\ HighValueThreshold' = s.HighValueThreshold
    /\ NextTxId' = s.NextTxId
    /\ PendingTx' = s.PendingTx
    /\ Approval' = s.Approval
    /\ ApprovalCount' = s.ApprovalCount
    /\ Balance' = s.Balance

Init ==
    /\ Admin = NoAdmin
    /\ Signers = <<>>
    /\ Threshold = 0
    /\ HighValueThreshold = I128_MAX
    /\ NextTxId = 0
    /\ PendingTx = <<>>
    /\ Approval = {}
    /\ ApprovalCount = <<>>
    /\ Balance = [a \in Address |-> 0]
    /\ ExecutedEvents = <<>>
    /\ ThrottleAdmin = NoAdmin
    /\ ThrottleConfig = None
    /\ WalletThrottleState = <<>>
    /\ GlobalThrottleStats = None
    /\ ThrottledWallets = <<>>
    /\ ledger_timestamp = 0
    /\ frozen = FALSE

Initialize(admin) == Commit(initialize_state(Storage, admin))

SetSigners(caller, signers, threshold) ==
    Commit(set_signers(Storage, caller, signers, threshold))

SetHighValueThreshold(caller, amount) ==
    Commit(set_high_value_threshold(Storage, caller, amount))

SetBalance(caller, user, amount) ==
    Commit(set_balance(Storage, caller, user, amount))

SubmitTransaction(from, to, amount, payload, asset, now) ==
    Commit(submit_transaction(Storage, from, to, amount, payload, asset, now))

Approve(tx_id, signer) == Commit(approve(Storage, tx_id, signer))

\* submit_transaction, called while the id counter stays within cap
SubmitUpTo(cap, from, to, amount, payload, asset, now) ==
    /\ After(submit_transaction(Storage, from, to, amount, payload, asset,
                                now)).NextTxId <= cap
    /\ SubmitTransaction(from, to, amount, payload, asset, now)

Next ==
    \/ \E admin \in AdminChoices : Initialize(admin)
    \/ \E caller \in Callers, signers \in SignerLists, threshold \in ThresholdInputs :
            SetSigners(caller, signers, threshold)
    \/ \E caller \in Callers, amount \in Amounts : SetHighValueThreshold(caller, amount)
    \/ \E caller \in Callers, user \in Accounts, amount \in Amounts :
            SetBalance(caller, user, amount)
    \/ \E from \in Accounts, to \in Accounts, amount \in Amounts, payload \in Payloads,
          asset \in Assets, now \in Timestamps :
            SubmitUpTo(MaxPending, from, to, amount, payload, asset, now)
    \/ \E tx_id \in TxIds, signer \in Address : Approve(tx_id, signer)

Spec == Init /\ [][Next]_vars


\* The same machine with a two-signer registry and one sender, where the id
\* counter runs to U64_MAX: several pending transactions side by side.
IdsSignerLists == {<<"a1", "a2">>}
IdsThresholds == 1 .. 2
IdsSenders == {"a1"}
IdsAmounts == 1 .. I128_MAX

NextIds ==
    \/ \E admin \in AdminChoices : Initialize(admin)
    \/ \E signers \in IdsSignerLists, threshold \in IdsThresholds :
            \E caller \in AdminChoices : SetSigners(caller, signers, threshold)
    \/ \E caller \in AdminChoices, amount \in IdsAmounts :
            SetHighValueThreshold(caller, amount)
    \/ \E caller \in AdminChoices, user \in Accounts, amount \in {0, I128_MAX} :
            SetBalance(caller, user, amount)
    \/ \E from \in IdsSenders, to \in Accounts, amount \in IdsAmounts,
          payload \in Payloads, asset \in Assets, now \in Timestamps :
            SubmitTransaction(from, to, amount, payload, asset, now)
    \/ \E tx_id \in TxIds, signer \in Address : Approve(tx_id, signer)

SpecIds == Init /\ [][NextIds]_vars


\* The machine with its callers' schedule: the administrator and the senders
\* call until they stop for good (Freeze); every signer keeps attempting to
\* approve every transaction, so that an approve call that stays possible is
\* eventually made.
Freeze ==
    /\ ~frozen
    /\ frozen' = TRUE
    /\ UNCHANGED <<multisig_vars, throttle_vars>>

\* the registries the administrator chooses between while transactions wait
LiveSignerLists == {<<"a1">>, <<"a1", "a2">>}

NextLive ==
    \/ ~frozen /\ \E admin \in AdminChoices : Initialize(admin)
    \/ ~frozen /\ \E caller \in AdminChoices, signers \in LiveSignerLists,
                     threshold \in IdsThresholds :
            SetSigners(caller, signers, threshold)
    \/ ~frozen /\ \E caller \in AdminChoices, amount \in IdsAmounts :
            SetHighValueThreshold(caller, amount)
    \/ ~frozen /\ \E caller \in AdminChoices, user \in IdsSenders,
                     amount \in {0, I128_MAX} :
            SetBalance(caller, user, amount)
    \/ ~frozen /\ \E from \in IdsSenders, to \in Accounts, amount \in IdsAmounts,
                     payload \in Payloads, asset \in Assets, now \in Timestamps :
            SubmitUpTo(MaxPending, from, to, amount, payload, asset, now)
    \/ \E tx_id \in TxIds, signer \in Address : Approve(tx_id, signer)
    \/ Freeze

ApproveFairness ==
    \A tx_id \in 1 .. MaxPending, signer \in Address :
        WF_vars(Approve(tx_id, signer))

SpecLive == Init /\ [][NextLive]_vars /\ ApproveFairness

\* The machine before the administrator's first set_high_value_threshold:
\* every entry point but that one.
NextDefault ==
    \/ \E admin \in AdminChoices : Initialize(admin)
    \/ \E caller \in Callers, signers \in SignerLists, threshold \in ThresholdInputs :
            SetSigners(caller, signers, threshold)
    \/ \E caller \in Callers, user \in Accounts, amount \in Amounts :
            SetBalance(caller, user, amount)
    \/ \E from \in Accounts, to \in Accounts, amount \in Amounts, payload \in Payloads,
          asset \in Assets, now \in Timestamps :
            SubmitUpTo(MaxPending, from, to, amount, payload, asset, now)
    \/ \E tx_id \in TxIds, signer \in Address : Approve(tx_id, signer)

SpecDefault == Init /\ [][NextDefault]_vars

\* ========================================================== throttling.rs
\* bounds of the runs of SpecThrottle
\* largest max_transactions_per_window handed to the contract
MaxPerWindow == 2
\* longest window, block duration and cleanup interval, in seconds
MaxSeconds == 2
\* the ledger time stops advancing here
MaxTime == 2
\* check_transaction_throttle is called while total_transactions_checked is
\* below this
MaxChecked == 4

\* the wallets checked, the accounts calling the admin entry points, and the
\* wallets the admin exempts
Wallets == {"a1", "a2"}
ThrottleCallers == {"a1", "a2"}
ExemptInputs == {"a2"}
\* the ThrottleConfig values handed to initialize and update_throttle_config:
\* the valid ones within the bounds, and one invalid value for each field
\* validate_config tests
ValidConfigs ==
    {[max_transactions_per_window |-> m, window_size_seconds |-> w,
      block_duration_seconds |-> b, cleanup_interval_seconds |-> MaxSeconds,
      enabled |-> e, exempt_addresses |-> <<>>] :
        m \in 1 .. MaxPerWindow, w \in 1 .. MaxSeconds, b \in 1 .. MaxSeconds,
        e \in BOOLEAN}
InvalidConfigs ==
    LET valid == [max_transactions_per_window |-> 1, window_size_seconds |-> 1,
                  block_duration_seconds |-> 1, cleanup_interval_seconds |-> 1,
                  enabled |-> TRUE, exempt_addresses |-> <<>>]
    IN  {[valid EXCEPT !.max_transactions_per_window = 0],
         [valid EXCEPT !.window_size_seconds = 0],
         [valid EXCEPT !.block_duration_seconds = 0],
         [valid EXCEPT !.cleanup_interval_seconds = 0]}
ThrottleConfigs == ValidConfigs \cup InvalidConfigs

\* the storage of ThrottleContract as one value, with the ledger time and the
\* events the running call has published so far
ThrottleStorage ==
    [Admin |-> ThrottleAdmin, Config |-> ThrottleConfig,
     Wallets |-> WalletThrottleState, Stats |-> GlobalThrottleStats,
     Throttled |-> ThrottledWallets, timestamp |-> ledger_timestamp,
     Events |-> <<>>]

\* Vec::contains
Contains(vec, x) == \E i \in 1 .. Len(vec) : vec[i] = x
\* the Vec without every occurrence of x, order kept
RECURSIVE Without(_, _)
Without(vec, x) ==
    IF vec = <<>> THEN <<>>
    ELSE IF Head(vec) = x THEN Without(Tail(vec), x)
    ELSE <<Head(vec)>> \o Without(Tail(vec), x)

\* an f64 quotient of two counters, as a fraction in lowest terms
Quotient(n, d) ==
    LET g == CHOOSE k \in 1 .. d :
                /\ n % k = 0 /\ d % k = 0
                /\ \A j \in (k + 1) .. d : ~(n % j = 0 /\ d % j = 0)
    IN  <<n \div g, d \div g>>

ThrottleResult(allowed, reason, remaining, reset_time, end_time) ==
    [allowed |-> allowed, reason |-> reason, remaining_transactions |-> remaining,
     window_reset_time |-> reset_time, throttle_end_time |-> end_time]

throttle_triggered(s, wallet, violation) ==
    publish(s, <<"throttle", "triggered">>,
            <<wallet, violation.transaction_count, violation.max_allowed,
              violation.window_size, violation.violation_time>>)
throttle_lifted(s, wallet, duration) ==
    publish(s, <<"throttle", "lifted">>, <<wallet, duration, s.timestamp>>)
transaction_allowed(s, wallet, remaining) ==
    publish(s, <<"throttle", "allowed">>, <<wallet, remaining, s.timestamp>>)
config_updated(s, admin, config) ==
    publish(s, <<"throttle", "config_updated">>,
            <<admin, config.max_transactions_per_window, config.window_size_seconds,
              config.block_duration_seconds, s.timestamp>>)
wallet_exempted(s, admin, wallet) ==
    publish(s, <<"throttle", "exempted">>, <<admin, wallet, s.timestamp>>)
cleanup_performed(s, cleaned_wallets, freed_space) ==
    publish(s, <<"throttle", "cleanup">>, <<cleaned_wallets, freed_space, s.timestamp>>)
violation_recorded(s, wallet, violation_count) ==
    publish(s, <<"throttle", "violation">>, <<wallet, violation_count, s.timestamp>>)

\* "Ok" or the error validate_config panics with
validate_config(config) ==
    IF config.max_transactions_per_window = 0 THEN "InvalidConfig"
    ELSE IF config.window_size_seconds = 0 THEN "InvalidConfig"
    ELSE IF config.block_duration_seconds = 0 THEN "InvalidConfig"
    ELSE IF config.cleanup_interval_seconds = 0 THEN "InvalidConfig"
    ELSE "Ok"

initialize_throttle_contract(s, admin, config) ==
    IF s.Admin # NoAdmin THEN Panic(s, "AlreadyInitialized")
    ELSE IF validate_config(config) # "Ok" THEN Panic(s, validate_config(config))
    ELSE LET initial_stats ==
                 [total_transactions_checked |-> 0, total_violations |-> 0,
                  currently_throttled_wallets |-> 0,
                  last_cleanup_time |-> s.timestamp,
                  average_transactions_per_window |-> <<0, 1>>]
         IN  Ok([s EXCEPT !.Admin = admin, !.Config = Some(config),
                          !.Throttled = <<>>, !.Stats = Some(initial_stats)], None)

\* "Ok" or the error require_admin of throttling.rs panics with
throttle_require_admin(s, caller) ==
    IF s.Admin = NoAdmin THEN "NotInitialized"
    ELSE IF s.Admin # caller THEN "Unauthorized"
    ELSE "Ok"

\* the stored configuration (callers test s.Config # None first: the source
\* panics with NotInitialized)
get_throttle_config(s) == s.Config[1]

get_wallet_throttle_state(s, wallet_address) ==
    IF wallet_address \in DOMAIN s.Wallets THEN s.Wallets[wallet_address]
    ELSE [wallet_address |-> wallet_address, transaction_count |-> 0,
          window_start |-> s.timestamp, last_transaction_time |-> 0,
          is_throttled |-> FALSE, throttle_start_time |-> 0,
          violation_count |-> 0, total_transactions_all_time |-> 0]

\* variant: the wallet state is never written
save_wallet_throttle_state_dropped(s, wallet_address, state) == s

save_wallet_throttle_state(s, wallet_address, state) ==
    [s EXCEPT !.Wallets = Put(@, wallet_address, state)]

get_throttled_wallets(s) == s.Throttled

get_global_throttle_stats(s) ==
    IF s.Stats # None THEN s.Stats[1]
    ELSE [total_transactions_checked |-> 0, total_violations |-> 0,
          currently_throttled_wallets |-> 0, last_cleanup_time |-> 0,
          average_transactions_per_window |-> <<0, 1>>]

add_to_throttled_wallets(s, wallet_address) ==
    IF ~Contains(get_throttled_wallets(s), wallet_address)
    THEN [s EXCEPT !.Throttled = Append(@, wallet_address)]
    ELSE s

\* variant: the list of throttled wallets is left as it is
remove_from_throttled_wallets_kept(s, wallet_address) == s

remove_from_throttled_wallets(s, wallet_address) ==
    [s EXCEPT !.Throttled = Without(get_throttled_wallets(s), wallet_address)]

update_global_stats(s, is_violation) ==
    LET stats == get_global_throttle_stats(s)
        checked == stats.total_transactions_checked + 1
        violations == stats.total_violations + (IF is_violation THEN 1 ELSE 0)
    IN  [s EXCEPT !.Stats = Some(
            [stats EXCEPT
                !.total_transactions_checked = checked,
                !.total_violations = violations,
                !.currently_throttled_wallets = Len(get_throttled_wallets(s)),
                !.average_transactions_per_window = Quotient(violations, checked)])]

cleanup_old_data(s, current_time) ==
    LET stats == get_global_throttle_stats(s)
        s1 == [s EXCEPT !.Stats = Some([stats EXCEPT !.last_cleanup_time = current_time])]
    IN  cleanup_performed(s1, 0, 0)

maybe_cleanup_old_data(s, current_time) ==
    LET config == get_throttle_config(s)
        stats == get_global_throttle_stats(s)
    IN  IF current_time >= stats.last_cleanup_time + config.cleanup_interval_seconds
        THEN cleanup_old_data(s, current_time)
        ELSE s


check_transaction_throttle(s, wallet_address) ==
    IF s.Config = None THEN Panic(s, "NotInitialized")
    ELSE
    LET config == get_throttle_config(s) IN
    IF ~config.enabled
    THEN Ok(s, ThrottleResult(TRUE, "SystemDisabled", U32_MAX, 0, None))
    ELSE IF Contains(config.exempt_addresses, wallet_address)
    THEN Ok(s, ThrottleResult(TRUE, "WalletExempt", U32_MAX, 0, None))
    ELSE
    LET current_time == s.timestamp
        s1 == maybe_cleanup_old_data(s, current_time)
        stored_state == get_wallet_throttle_state(s1, wallet_address)
    IN
    IF /\ stored_state.is_throttled
       /\ current_time < stored_state.throttle_start_time + config.block_duration_seconds
    THEN Ok(s1, ThrottleResult(FALSE, "CurrentlyThrottled", 0,
                    stored_state.window_start + config.window_size_seconds,
                    Some(stored_state.throttle_start_time + config.block_duration_seconds)))
    ELSE
    LET \* the throttle period expired: reset state
        lifted_state ==
            IF stored_state.is_throttled
            THEN [stored_state EXCEPT !.is_throttled = FALSE,
                                      !.transaction_count = 0,
                                      !.window_start = current_time,
                                      !.violation_count = 0]
            ELSE stored_state
        s2 == IF stored_state.is_throttled
              THEN throttle_lifted(remove_from_throttled_wallets(s1, wallet_address),
                                   wallet_address, config.block_duration_seconds)
              ELSE s1
        \* the window elapsed: reset the window
        wallet_state ==
            IF current_time >= lifted_state.window_start + config.window_size_seconds
            THEN [lifted_state EXCEPT !.transaction_count = 0,
                                      !.window_start = current_time]
            ELSE lifted_state
    IN
    IF wallet_state.transaction_count >= config.max_transactions_per_window
    THEN LET throttled_state ==
                 [wallet_state EXCEPT !.is_throttled = TRUE,
                                      !.throttle_start_time = current_time,
                                      !.violation_count = @ + 1]
             violation ==
                 [wallet_address |-> wallet_address, violation_time |-> current_time,
                  transaction_count |-> wallet_state.transaction_count + 1,
                  window_size |-> config.window_size_seconds,
                  max_allowed |-> config.max_transactions_per_window]
             s3 == add_to_throttled_wallets(s2, wallet_address)
             s4 == update_global_stats(s3, TRUE)
             s5 == save_wallet_throttle_state(s4, wallet_address, throttled_state)
             s6 == throttle_triggered(s5, wallet_address, violation)
             s7 == violation_recorded(s6, wallet_address, throttled_state.violation_count)
         IN  Ok(s7, ThrottleResult(FALSE, "ExceededFrequency", 0,
                        throttled_state.window_start + config.window_size_seconds,
                        Some(current_time + config.block_duration_seconds)))
    ELSE LET counted_state ==
                 [wallet_state EXCEPT !.transaction_count = @ + 1,
                                      !.last_transaction_time = current_time,
                                      !.total_transactions_all_time = @ + 1]
             remaining == config.max_transactions_per_window - counted_state.transaction_count
             s3 == update_global_stats(s2, FALSE)
             s4 == save_wallet_throttle_state(s3, wallet_address, counted_state)
             s5 == transaction_allowed(s4, wallet_address, remaining)
         IN  Ok(s5, ThrottleResult(TRUE, "Allowed", remaining,
                        counted_state.window_start + config.window_size_seconds, None))

update_throttle_config(s, caller, new_config) ==
    IF throttle_require_admin(s, caller) # "Ok"
    THEN Panic(s, throttle_require_admin(s, caller))
    ELSE IF validate_config(new_config) # "Ok"
    THEN Panic(s, validate_config(new_config))
    ELSE Ok(config_updated([s EXCEPT !.Config = Some(new_config)], caller, new_config), None)

add_exempt_address(s, caller, wallet_address) ==
    IF throttle_require_admin(s, caller) # "Ok"
    THEN Panic(s, throttle_require_admin(s, caller))
    ELSE IF s.Config = None THEN Panic(s, "NotInitialized")
    ELSE LET config == get_throttle_config(s) IN
         IF ~Contains(config.exempt_addresses, wallet_address)
         THEN Ok(wallet_exempted(
                    [s EXCEPT !.Config = Some([config EXCEPT
                        !.exempt_addresses = Append(@, wallet_address)])],
                    caller, wallet_address), None)
         ELSE Ok(s, None)

remove_exempt_address(s, caller, wallet_address) ==
    IF throttle_require_admin(s, caller) # "Ok"
    THEN Panic(s, throttle_require_admin(s, caller))
    ELSE IF s.Config = None THEN Panic(s, "NotInitialized")
    ELSE LET config == get_throttle_config(s)
             found == Contains(config.exempt_addresses, wallet_address)
             new_exempt_list == Without(config.exempt_addresses, wallet_address)
         IN  IF found
             THEN Ok([s EXCEPT !.Config = Some([config EXCEPT
                         !.exempt_addresses = new_exempt_list])], None)
             ELSE Ok(s, None)

force_cleanup(s, caller) ==
    IF throttle_require_admin(s, caller) # "Ok"
    THEN Panic(s, throttle_require_admin(s, caller))
    ELSE Ok(cleanup_old_data(s, s.timestamp), None)

reset_wallet_throttle_state(s, caller, wallet_address) ==
    IF throttle_require_admin(s, caller) # "Ok"
    THEN Panic(s, throttle_require_admin(s, caller))
    ELSE IF s.Config = None THEN Panic(s, "NotInitialized")
    ELSE LET reset_state ==
                 [wallet_address |-> wallet_address, transaction_count |-> 0,
                  window_start |-> s.timestamp, last_transaction_time |-> 0,
                  is_throttled |-> FALSE, throttle_start_time |-> 0,
                  violation_count |-> 0, total_transactions_all_time |-> 0]
             s1 == save_wallet_throttle_state(s, wallet_address, reset_state)
         IN  Ok(remove_from_throttled_wallets(s1, wallet_address), None)

\* ------------------------------------------------ the throttle state machine
\* the storage the host keeps after a call of ThrottleContract
ThrottleAfter(out) == IF out.err = "Ok" THEN out.st ELSE ThrottleStorage

ThrottleCommit(out) ==
    LET s == ThrottleAfter(out) IN
    /\ ThrottleAdmin' = s.Admin
    /\ ThrottleConfig' = s.Config
    /\ WalletThrottleState' = s.Wallets
    /\ GlobalThrottleStats' = s.Stats
    /\ ThrottledWallets' = s.Throttled
    /\ ledger_timestamp' = ledger_timestamp
    /\ UNCHANGED <<multisig_vars, frozen>>

ThrottleInitialize ==
    \E admin \in AdminChoices, config \in ThrottleConfigs :
        ThrottleCommit(initialize_throttle_contract(ThrottleStorage, admin, config))

CheckTransactionThrottle ==
    \E wallet_address \in Wallets :
        /\ get_global_throttle_stats(ThrottleStorage).total_transactions_checked < MaxChecked
        /\ ThrottleCommit(check_transaction_throttle(ThrottleStorage, wallet_address))

UpdateThrottleConfig ==
    \E caller \in ThrottleCallers, new_config \in ThrottleConfigs :
        ThrottleCommit(update_throttle_config(ThrottleStorage, caller, new_config))

AddExemptAddress ==
    \E caller \in ThrottleCallers, wallet_address \in ExemptInputs :
        ThrottleCommit(add_exempt_address(ThrottleStorage, caller, wallet_address))

RemoveExemptAddress ==
    \E caller \in ThrottleCallers, wallet_address \in ExemptInputs :
        ThrottleCommit(remove_exempt_address(ThrottleStorage, caller, wallet_address))

ForceCleanup ==
    \E caller \in ThrottleCallers :
        ThrottleCommit(force_cleanup(ThrottleStorage, caller))

ResetWalletThrottleState ==
    \E caller \in ThrottleCallers, wallet_address \in Wallets :
        ThrottleCommit(reset_wallet_throttle_state(ThrottleStorage, caller, wallet_address))

\* the ledger closes: the timestamp the next calls read moves on
AdvanceLedger ==
    /\ ledger_timestamp < MaxTime
    /\ ledger_timestamp' = ledger_timestamp + 1
    /\ UNCHANGED <<ThrottleAdmin, ThrottleConfig, WalletThrottleState,
                   GlobalThrottleStats, ThrottledWallets>>
    /\ UNCHANGED <<multisig_vars, frozen>>

NextThrottle ==
    \/ ThrottleInitialize
    \/ CheckTransactionThrottle
    \/ UpdateThrottleConfig
    \/ AddExemptAddress
    \/ RemoveExemptAddress
    \/ ForceCleanup
    \/ ResetWalletThrottleState
    \/ AdvanceLedger

SpecThrottle == Init /\ [][NextThrottle]_vars

\* ------------------------------------------------------ reading the state
\* get_pending_tx(id) is Some for exactly these ids
PendingIds == DOMAIN PendingTx
\* the accounts for which has_approved(id, account) is true
Marks(id) == {a \in Address : <<id, a>> \in Approval}
SignerSet == {Signers[i] : i \in 1 .. Len(Signers)}
HasDuplicate(signers) ==
    \E i \in 1 .. Len(signers) : \E j \in 1 .. Len(signers) :
        i # j /\ signers[i] = signers[j]
RECURSIVE SumOver(_, _)
SumOver(b, accts) ==
    IF accts = {} THEN 0
    ELSE LET a == CHOOSE x \in accts : TRUE IN b[a] + SumOver(b, accts \ {a})
\* sum of all account balances
TotalBalance(b) == SumOver(b, Address)
\* the balances after amount has moved from one account to another
Moved(b, from, to, amount) ==
    [x \in Address |-> b[x] - (IF x = from THEN amount ELSE 0)
                            + (IF x = to THEN amount ELSE 0)]
\* every signer list of up to MaxSigners + 1 accounts, every threshold
AllSignerLists == UNION {[1 .. n -> Address] : n \in 0 .. MaxSigners + 1}
AllThresholds == 0 .. MaxSigners + 2
\* a pending transaction becomes executed in this step
Executes(id) == ~PendingTx[id].executed /\ PendingTx'[id].executed

\* ----------------------------------------------------------------- claims

\* C1 (as stated): a pending transaction becomes executed in exactly the
\* approve call that raises its approval count from t-1 to t, t the threshold
\* in force at that call; never on a call that leaves the count below t and
\* never on a call that raises the count above t.
C1_QuorumExactness ==
    [][\A id \in PendingIds :
        /\ Executes(id) =>
              /\ ApprovalCount[id] = Threshold - 1
              /\ ApprovalCount'[id] = Threshold
        /\ (ApprovalCount'[id] # ApprovalCount[id] /\ ApprovalCount'[id] = Threshold)
              => Executes(id)]_vars

\* C1 (amended): a pending transaction becomes executed in exactly the
\* successful approve call that raises its approval count by one to a value
\* c >= t, t the threshold in force at that call; a call that leaves the count
\* below t never executes it, and c = t whenever the count before the call
\* was below t (c > t only after set_signers lowered the threshold to at most
\* the count already recorded).
C1_QuorumAtLeast ==
    [][\A id \in PendingIds :
        /\ Executes(id) =>
              /\ ApprovalCount'[id] = ApprovalCount[id] + 1
              /\ ApprovalCount'[id] >= Threshold
              /\ Threshold' = Threshold
              /\ (ApprovalCount[id] < Threshold => ApprovalCount'[id] = Threshold)
        /\ (ApprovalCount'[id] # ApprovalCount[id])
              => (Executes(id) <=> ApprovalCount'[id] >= Threshold)]_vars

\* a transaction executed by the second approval under a threshold of two
C1_Witness ==
    \E id \in PendingIds :
        /\ PendingTx[id].executed
        /\ ApprovalCount[id] = 2
        /\ Threshold = 2

\* C2 (as stated): once a pending transaction is executed, every later
\* approve on that id, by any caller, fails with AlreadyExecuted and changes
\* no balance and not the approval count.
C2_NoDoubleExecution ==
    \A id \in PendingIds : \A caller \in Address :
        PendingTx[id].executed =>
            LET out == approve(Storage, id, caller) IN
            /\ out.err = "AlreadyExecuted"
            /\ After(out).Balance = Balance
            /\ After(out).ApprovalCount = ApprovalCount

\* C3 (as stated): every successful transfer (immediate submit or
\* quorum-reaching approve), sender and recipient not necessarily distinct,
\* leaves the sum of all balances unchanged; a rejected one changes no balance.
C3_BalanceConservation ==
    /\ \A from \in Address, to \in Address, amount \in Amounts :
          LET out == submit_transaction(Storage, from, to, amount, "pay", None, 0) IN
          /\ TotalBalance(After(out).Balance) = TotalBalance(Balance)
          /\ out.err # "Ok" => After(out).Balance = Balance
    /\ \A id \in TxIds, signer \in Address :
          LET out == approve(Storage, id, signer) IN
          /\ TotalBalance(After(out).Balance) = TotalBalance(Balance)
          /\ out.err # "Ok" => After(out).Balance = Balance

\* C4: in every reachable state the stored approval count of every pending
\* transaction equals the number of distinct accounts holding an approval
\* mark for it, and marks and counts exist for pending ids only.
C4_ApprovalCountConsistent ==
    /\ DOMAIN ApprovalCount = PendingIds
    /\ \A id \in PendingIds : ApprovalCount[id] = Cardinality(Marks(id))
    /\ \A m \in Approval : m[1] \in PendingIds

\* two distinct signers approved one transaction
C4_Witness ==
    \E id \in PendingIds : ApprovalCount[id] = 2 /\ Cardinality(Marks(id)) = 2

\* C5: approve(id, s) by a registered signer s that already holds an approval
\* mark on the non-executed transaction id fails with DuplicateApproval and
\* leaves marks, count, executed flag and balances unchanged.
C5_DuplicateApprovalRejected ==
    \A id \in PendingIds : \A s \in Address :
        (~PendingTx[id].executed /\ s \in Marks(id) /\ is_signer(Storage, s)) =>
            LET out == approve(Storage, id, s) IN
            /\ out.err = "DuplicateApproval"
            /\ After(out).Approval = Approval
            /\ After(out).ApprovalCount = ApprovalCount
            /\ After(out).PendingTx = PendingTx
            /\ After(out).Balance = Balance

\* a registered signer holds a mark on a transaction that is still pending,
\* and its second approve is rejected there
C5_Witness ==
    \E id \in PendingIds : \E s \in Marks(id) :
        /\ ~PendingTx[id].executed
        /\ is_signer(Storage, s)
        /\ approve(Storage, id, s).err = "DuplicateApproval"

\* C6 (as stated): a successful submit_transaction of amount a > 0 returns
\* None and moves a from sender to recipient immediately iff a < h; otherwise
\* it returns Some(id), creates a pending record with executed = false and
\* leaves every balance unchanged.
C6_ThresholdRouting ==
    \A from \in Address, to \in Address, amount \in 1 .. I128_MAX :
        LET out == submit_transaction(Storage, from, to, amount, "pay", None, 0) IN
        out.err = "Ok" =>
            /\ out.ret = None <=> amount < HighValueThreshold
            /\ amount < HighValueThreshold =>
                  /\ out.st.Balance = Moved(Balance, from, to, amount)
                  /\ out.st.PendingTx = PendingTx
            /\ amount >= HighValueThreshold =>
                  /\ \E id \in DOMAIN out.st.PendingTx \ PendingIds :
                        /\ out.ret = Some(id)
                        /\ ~out.st.PendingTx[id].executed
                  /\ out.st.Balance = Balance

\* C7: approve(id, a) on an existing, non-executed pending transaction by an
\* account a outside the current signer list fails with UnauthorizedSigner,
\* records no mark, changes no count and moves no balance.
C7_OnlySignersApprove ==
    \A id \in PendingIds : \A a \in Address :
        (~PendingTx[id].executed /\ a \notin SignerSet) =>
            LET out == approve(Storage, id, a) IN
            /\ out.err = "UnauthorizedSigner"
            /\ After(out).Approval = Approval
            /\ After(out).ApprovalCount = ApprovalCount
            /\ After(out).Balance = Balance

\* a pending transaction with one approval recorded, and an account outside
\* the signer list whose approve is rejected there
C7_Witness ==
    \E id \in PendingIds : \E a \in Address :
        /\ ~PendingTx[id].executed
        /\ ApprovalCount[id] = 1
        /\ a \notin SignerSet
        /\ approve(Storage, id, a).err = "UnauthorizedSigner"

\* C8 (as stated): when a pending transaction becomes executed, the number of
\* accounts that hold an approval mark for it and are in the signer list at
\* that moment is at least the threshold in force at that moment.
C8_QuorumOfAuthorizedSigners ==
    [][\A id \in PendingIds :
        Executes(id) =>
            Cardinality({a \in Address : <<id, a>> \in Approval' /\ is_signer(Storage', a)})
                >= Threshold']_vars

\* C9: the signer registry is either unconfigured (no signers, threshold 0)
\* or has 0 < threshold <= number of signers and no account twice.
C9_RegistryInvariant ==
    \/ Signers = <<>> /\ Threshold = 0
    \/ /\ 0 < Threshold
       /\ Threshold <= Len(Signers)
       /\ ~HasDuplicate(Signers)

\* a configured registry of two signers with threshold 1
C9_Witness == Len(Signers) = 2 /\ Threshold = 1

\* C10: set_signers by the admin rejects threshold 0, a threshold above the
\* number of signers and a list with an account at two positions, leaving the
\* registry unchanged; it accepts every other list with a threshold from 1
\* to the number of signers (1 and the number of signers included) and then
\* get_signers and get_threshold return the list and threshold supplied.
C10_RegistryValidation ==
    Admin # NoAdmin =>
        \A signers \in AllSignerLists : \A threshold \in AllThresholds :
            LET out == set_signers(Storage, Admin, signers, threshold) IN
            IF threshold = 0 \/ threshold > Len(signers) \/ HasDuplicate(signers)
            THEN /\ out.err # "Ok"
                 /\ get_signers(After(out)) = Signers
                 /\ get_threshold(After(out)) = Threshold
            ELSE /\ out.err = "Ok"
                 /\ get_signers(After(out)) = signers
                 /\ get_threshold(After(out)) = threshold

\* the admin has set a list of two signers with the unanimity threshold, and
\* a list naming one account twice is rejected there
C10_Witness ==
    /\ Admin # NoAdmin
    /\ Len(Signers) = 2
    /\ Threshold = Len(Signers)
    /\ \E a \in Address :
          set_signers(Storage, Admin, <<a, Signers[1], a>>, 1).err = "DuplicateSigner"

\* C11: a submit_transaction that fails (InvalidAmount for an amount <= 0;
\* InsufficientBalance or Overflow on the immediate path; MultisigNotConfigured
\* for an amount at or above the high-value threshold with no usable registry;
\* Overflow of the id counter) fails with that error, has written nothing when
\* it panics, and leaves the balances, the pending records, the approval
\* counts and the id counter as they were.
C11_FailedSubmitLeavesNoTrace ==
    \A from \in Address, to \in Address, amount \in Amounts :
        LET out == submit_transaction(Storage, from, to, amount, "pay", None, 0)
            high == ~is_low_value(amount, HighValueThreshold)
            configured == ensure_multisig_configured(Storage) = "Ok"
        IN  /\ amount <= 0 => out.err = "InvalidAmount"
            /\ (amount > 0 /\ ~high /\ Balance[from] < amount)
                    => out.err = "InsufficientBalance"
            /\ (amount > 0 /\ ~high /\ Balance[from] >= amount
                    /\ Balance[to] + amount > I128_MAX) => out.err = "Overflow"
            /\ (amount > 0 /\ high /\ ~configured) => out.err = "MultisigNotConfigured"
            /\ (amount > 0 /\ high /\ configured /\ NextTxId = U64_MAX)
                    => out.err = "Overflow"
            /\ out.err # "Ok" =>
                    /\ out.st = Storage
                    /\ After(out).Balance = Balance
                    /\ After(out).PendingTx = PendingTx
                    /\ After(out).ApprovalCount = ApprovalCount
                    /\ After(out).NextTxId = NextTxId

\* the id counter is at its maximum with a usable registry: a high-value
\* submission fails with Overflow, a low-value one with a full recipient too
C11_Witness ==
    /\ NextTxId = U64_MAX
    /\ \E from \in Address, to \in Address, amount \in Amounts :
            /\ ~is_low_value(amount, HighValueThreshold)
            /\ submit_transaction(Storage, from, to, amount, "pay", None, 0).err
                    = "Overflow"
    /\ \E from \in Address, to \in Address, amount \in Amounts :
            /\ is_low_value(amount, HighValueThreshold)
            /\ from # to
            /\ submit_transaction(Storage, from, to, amount, "pay", None, 0).err
                    = "Overflow"

\* approve(id, signer) passes its checks, records the approval, and panics in
\* execute_transfer
TransferFails(id, signer) ==
    /\ record_approval(Storage, id, signer).err = "Ok"
    /\ approve(Storage, id, signer).err \in {"InsufficientBalance", "Overflow"}

ClaimedApproveError(id, signer) ==
    IF id \notin PendingIds THEN "PendingTxNotFound"
    ELSE IF PendingTx[id].executed THEN "AlreadyExecuted"
    ELSE IF signer \notin SignerSet THEN "UnauthorizedSigner"
    ELSE IF <<id, signer>> \in Approval THEN "DuplicateApproval"
    ELSE "Ok"

\* C13: approve checks in this order: the record exists (PendingTxNotFound),
\* it is not executed (AlreadyExecuted), the approver is a registered signer
\* (UnauthorizedSigner), the approver has no mark yet (DuplicateApproval); a
\* call failing several checks reports the first, so a non-signer approving
\* an unknown id gets PendingTxNotFound.
C13_ApproveCheckOrder ==
    \A id \in TxIds, signer \in Address :
        ClaimedApproveError(id, signer) # "Ok"
            => approve(Storage, id, signer).err = ClaimedApproveError(id, signer)

\* C14: from initialisation until the administrator first calls
\* set_high_value_threshold, no submit_transaction with a positive amount, up
\* to and including the maximum amount, creates a pending transaction,
\* whatever signer configuration is installed (SpecDefault: the runs without
\* set_high_value_threshold).
C14_DefaultRoutesNothingToPending ==
    /\ PendingTx = <<>>
    /\ Admin # NoAdmin =>
          \A from \in Address, to \in Address, amount \in 1 .. I128_MAX :
              LET out == submit_transaction(Storage, from, to, amount, "pay", None, 0)
              IN  /\ out.ret = None
                  /\ After(out).PendingTx = PendingTx

\* C15: the ids returned by successful pending submissions are 1 for the
\* first and strictly increasing afterwards: a submission that creates a
\* pending transaction returns the id counter plus one, an id above every id
\* given out before and without a record, stores the counter, and leaves every
\* existing record as it is; with the counter at its maximum the submission
\* fails with Overflow and nothing wraps around.
C15_TransactionIds ==
    /\ NextTxId \in 0 .. U64_MAX
    /\ PendingIds \subseteq 1 .. NextTxId
    /\ \A id \in PendingIds : PendingTx[id].id = id
    /\ \A from \in Address, to \in Address, amount \in Amounts :
        LET out == submit_transaction(Storage, from, to, amount, "pay", None, 0)
            pending_path == /\ amount > 0
                            /\ ~is_low_value(amount, HighValueThreshold)
                            /\ ensure_multisig_configured(Storage) = "Ok"
        IN  /\ (pending_path /\ NextTxId < U64_MAX) =>
                    /\ out.err = "Ok"
                    /\ out.ret = Some(NextTxId + 1)
                    /\ NextTxId = 0 => out.ret = Some(1)
                    /\ NextTxId + 1 \notin PendingIds
                    /\ \A id \in PendingIds : id < NextTxId + 1
                    /\ out.st.NextTxId = NextTxId + 1
                    /\ DOMAIN out.st.PendingTx = PendingIds \cup {NextTxId + 1}
                    /\ \A id \in PendingIds : out.st.PendingTx[id] = PendingTx[id]
            /\ (pending_path /\ NextTxId = U64_MAX) =>
                    /\ out.err = "Overflow"
                    /\ After(out) = Storage
            /\ ~pending_path => out.ret = None /\ After(out).NextTxId = NextTxId
                                /\ After(out).PendingTx = PendingTx

\* ids 1 and 2 have been given out, in that order, and the next pending
\* submission meets the counter at its maximum
C15_Witness ==
    /\ {1, 2} \subseteq PendingIds
    /\ NextTxId = U64_MAX
    /\ PendingTx[1].id = 1 /\ PendingTx[2].id = 2
    /\ \E from \in Address, to \in Address, amount \in Amounts :
            submit_transaction(Storage, from, to, amount, "pay", None, 0).err = "Overflow"

\* C16: the executed flag of a pending transaction only changes from false to
\* true; once it is true no call changes any field of the record; no call
\* deletes a pending record.
C16_ExecutedIsFinal ==
    [][\A id \in PendingIds :
            /\ id \in DOMAIN PendingTx'
            /\ PendingTx[id].executed => PendingTx'[id] = PendingTx[id]
            /\ PendingTx'[id].executed # PendingTx[id].executed
                    => ~PendingTx[id].executed /\ PendingTx'[id].executed]_vars

\* an executed transaction that a registered signer without a mark approves
\* again, and that the administrator's calls and new submissions find stored
C16_Witness ==
    \E id \in PendingIds, signer \in SignerSet :
        /\ PendingTx[id].executed
        /\ <<id, signer>> \notin Approval
        /\ approve(Storage, id, signer).err = "AlreadyExecuted"
        /\ Balance[PendingTx[id].from] >= PendingTx[id].amount

\* the lifecycle states of a pending transaction, against the threshold stored
Created(id) == ~PendingTx[id].executed /\ ApprovalCount[id] = 0
PartiallyApproved(id) ==
    /\ ~PendingTx[id].executed
    /\ 0 < ApprovalCount[id]
    /\ ApprovalCount[id] < Threshold
Executed(id) == PendingTx[id].executed /\ ApprovalCount[id] >= Threshold

\* C17 as stated: in every reachable state every pending transaction is in
\* exactly one of Created, PartiallyApproved and Executed, also after
\* set_signers changes the threshold.
C17_LifecycleStates ==
    \A id \in PendingIds : Created(id) \/ PartiallyApproved(id) \/ Executed(id)

\* a pending transaction is created or changed in this step
Touched(id) ==
    \/ id \notin PendingIds
    \/ PendingTx'[id] # PendingTx[id]
    \/ ApprovalCount'[id] # ApprovalCount[id]

\* C17 (amended): in every reachable state every pending transaction is
\* non-executed with count 0, non-executed with count > 0, or executed with
\* count >= 1; and the submit or approve call that creates or changes it
\* leaves it in exactly one of Created, PartiallyApproved and Executed for the
\* threshold in force at that call.
C17_LifecycleAtLastApproval ==
    /\ [](\A id \in PendingIds :
            /\ id \in DOMAIN ApprovalCount
            /\ ApprovalCount[id] >= 0
            /\ PendingTx[id].executed => ApprovalCount[id] >= 1)
    /\ [][\A id \in DOMAIN PendingTx' :
            Touched(id) =>
                (Created(id) \/ PartiallyApproved(id) \/ Executed(id))']_vars

\* set_signers has lowered the threshold to the count of a transaction that
\* is not executed
C17_Witness ==
    \E id \in PendingIds :
        /\ ~PendingTx[id].executed
        /\ Threshold >= 1
        /\ ApprovalCount[id] >= Threshold

\* the lifecycle state of a pending transaction, read from its record and count
Phase(id) ==
    IF PendingTx[id].executed THEN "Executed"
    ELSE IF ApprovalCount[id] = 0 THEN "Created"
    ELSE "PartiallyApproved"

\* C18 as stated: the only lifecycle transitions are Created ->
\* PartiallyApproved and PartiallyApproved -> Executed; no call takes a
\* transaction from Created to Executed, moves it backwards or out of
\* Executed, for every valid threshold.
C18_OnlyTwoTransitions ==
    [][\A id \in PendingIds :
            Phase(id)' # Phase(id) =>
                <<Phase(id), Phase(id)'>> \in
                    {<<"Created", "PartiallyApproved">>,
                     <<"PartiallyApproved", "Executed">>}]_vars

\* C18 (amended): the lifecycle transitions are Created -> PartiallyApproved,
\* PartiallyApproved -> Executed and, with threshold 1 only, Created ->
\* Executed by the first approval; each is one approve call raising the count
\* by one; none moves a transaction backwards or out of Executed.
C18_LifecycleTransitions ==
    [][\A id \in PendingIds :
            Phase(id)' # Phase(id) =>
                /\ <<Phase(id), Phase(id)'>> \in
                        {<<"Created", "PartiallyApproved">>,
                         <<"PartiallyApproved", "Executed">>,
                         <<"Created", "Executed">>}
                /\ ApprovalCount'[id] = ApprovalCount[id] + 1
                /\ Threshold' = Threshold
                /\ Phase(id)' = "Executed" <=> ApprovalCount'[id] >= Threshold
                /\ <<Phase(id), Phase(id)'>> = <<"Created", "Executed">>
                        => Threshold = 1]_vars

\* a transaction executed by its first approval
C18_Witness ==
    \E id \in PendingIds :
        /\ PendingTx[id].executed
        /\ ApprovalCount[id] = 1
        /\ Cardinality(Marks(id)) = 1

\* C19: set_signers, set_high_value_threshold and set_balance called by any
\* account other than the stored administrator fail with Unauthorized (with
\* NotInitialized before initialisation), whatever their arguments, write
\* nothing, and leave signer list, threshold, high-value threshold and balances
\* unchanged, also after the administrator has configured them.
C19_AdminOnlyConfiguration ==
    \A caller \in Address :
        caller # Admin =>
            LET e == IF Admin = NoAdmin THEN "NotInitialized" ELSE "Unauthorized"
                Refused(out) == /\ out.err = e
                                /\ out.st = Storage
                                /\ After(out).Signers = Signers
                                /\ After(out).Threshold = Threshold
                                /\ After(out).HighValueThreshold = HighValueThreshold
                                /\ After(out).Balance = Balance
            IN  /\ \A signers \in SignerLists, threshold \in ThresholdInputs :
                        Refused(set_signers(Storage, caller, signers, threshold))
                /\ \A amount \in Amounts :
                        Refused(set_high_value_threshold(Storage, caller, amount))
                /\ \A user \in Address, amount \in Amounts :
                        Refused(set_balance(Storage, caller, user, amount))

\* the administrator has set signers, high-value threshold and a balance, and
\* another account's valid calls are refused
C19_Witness ==
    /\ Admin # NoAdmin
    /\ Threshold >= 1
    /\ HighValueThreshold # I128_MAX
    /\ \E a \in Address : Balance[a] > 0
    /\ \E caller \in Address \ {Admin} :
            /\ set_signers(Storage, caller, <<caller>>, 1).err = "Unauthorized"
            /\ set_high_value_threshold(Storage, caller, 0).err = "Unauthorized"
            /\ set_balance(Storage, caller, caller, I128_MAX).err = "Unauthorized"

\* C20: every balance is >= 0 in every reachable state; set_balance by the
\* administrator rejects a negative amount with InvalidAmount; a transfer of
\* more than the sender's balance, on the immediate path or at quorum, fails
\* with InsufficientBalance and changes no balance.
C20_BalancesNonNegative ==
    /\ \A a \in Address : Balance[a] >= 0
    /\ \A user \in Address, amount \in Amounts :
            (Admin # NoAdmin /\ amount < 0) =>
                LET out == set_balance(Storage, Admin, user, amount) IN
                out.err = "InvalidAmount" /\ out.st = Storage
    /\ \A from \in Address, to \in Address, amount \in Amounts :
            amount > Balance[from] =>
                LET t == execute_transfer(Storage, from, to, amount)
                    out == submit_transaction(Storage, from, to, amount, "pay", None, 0)
                IN  /\ t.err = "InsufficientBalance" /\ t.st = Storage
                    /\ is_low_value(amount, HighValueThreshold) =>
                            /\ out.err = "InsufficientBalance"
                            /\ After(out).Balance = Balance
    /\ \A id \in TxIds, signer \in Address :
            LET out == approve(Storage, id, signer) IN
            (/\ record_approval(Storage, id, signer).err = "Ok"
             /\ out.err \in {"Ok", "InsufficientBalance", "Overflow"}
             /\ quorum_reached(ApprovalCount[id] + 1, Threshold)
             /\ PendingTx[id].amount > Balance[PendingTx[id].from]) =>
                /\ out.err = "InsufficientBalance"
                /\ After(out).Balance = Balance

\* a sender holding less than the amount of its pending transaction when the
\* last approval arrives, and a negative set_balance by the administrator
C20_Witness ==
    /\ Admin # NoAdmin
    /\ set_balance(Storage, Admin, "a1", -1).err = "InvalidAmount"
    /\ \E id \in PendingIds, signer \in Address :
            /\ Balance[PendingTx[id].from] = 1
            /\ PendingTx[id].amount = 2
            /\ approve(Storage, id, signer).err = "InsufficientBalance"
    /\ \E from \in Address, to \in Address :
            /\ Balance[to] > 0
            /\ submit_transaction(Storage, from, to, 1, "pay", None, 0).err
                    = "InsufficientBalance"

\* C21: a transfer whose recipient balance plus amount exceeds the maximum of
\* the signed integer type fails with Overflow, on the immediate path and at
\* quorum, and changes neither balance; no balance ever leaves 0 .. I128_MAX.
C21_OverflowSafeCredit ==
    /\ \A a \in Address : Balance[a] \in 0 .. I128_MAX
    /\ \A from \in Address, to \in Address, amount \in Amounts :
            (amount > 0 /\ Balance[from] >= amount
                    /\ Balance[to] + amount > I128_MAX) =>
                LET t == execute_transfer(Storage, from, to, amount)
                    out == submit_transaction(Storage, from, to, amount, "pay", None, 0)
                IN  /\ t.err = "Overflow" /\ t.st = Storage
                    /\ amount < HighValueThreshold =>
                            /\ out.err = "Overflow"
                            /\ After(out).Balance = Balance
    /\ \A id \in TxIds, signer \in Address :
            LET out == approve(Storage, id, signer) IN
            (/\ record_approval(Storage, id, signer).err = "Ok"
             /\ out.err \in {"Ok", "InsufficientBalance", "Overflow"}
             /\ ApprovalCount[id] + 1 >= Threshold
             /\ PendingTx[id].amount <= Balance[PendingTx[id].from]
             /\ Balance[PendingTx[id].to] + PendingTx[id].amount > I128_MAX) =>
                /\ out.err = "Overflow"
                /\ After(out).Balance = Balance

\* a funded sender and a recipient at the maximum: the immediate transfer and
\* the approval that reaches quorum both fail with Overflow
C21_Witness ==
    /\ \E from \in Address, to \in Address :
            /\ from # to
            /\ Balance[to] = I128_MAX
            /\ submit_transaction(Storage, from, to, 1, "pay", None, 0).err = "Overflow"
    /\ \E id \in PendingIds, signer \in Address :
            /\ PendingTx[id].from # PendingTx[id].to
            /\ Balance[PendingTx[id].from] >= PendingTx[id].amount
            /\ approve(Storage, id, signer).err = "Overflow"

\* C22: a successful transfer of amount a from X to a different account Y,
\* immediate or executed at quorum with the from, to and amount of the pending
\* record, lowers X's balance by a, raises Y's by a and leaves every other
\* balance unchanged; an account never written reads as balance 0.
C22_TransferEffect ==
    /\ \A a \in Address \ Accounts : balance_of(Storage, a) = 0
    /\ \A from \in Address, to \in Address, amount \in Amounts :
            LET out == submit_transaction(Storage, from, to, amount, "pay", None, 0) IN
            (from # to /\ out.err = "Ok" /\ out.ret = None) =>
                /\ balance_of(out.st, from) = Balance[from] - amount
                /\ balance_of(out.st, to) = Balance[to] + amount
                /\ out.st.Balance = Moved(Balance, from, to, amount)
    /\ \A id \in TxIds, signer \in Address :
            LET out == approve(Storage, id, signer) IN
            (out.err = "Ok" /\ out.st.PendingTx[id].executed
                    /\ PendingTx[id].from # PendingTx[id].to) =>
                out.st.Balance = Moved(Balance, PendingTx[id].from, PendingTx[id].to,
                                       PendingTx[id].amount)
    /\ \A id \in TxIds, signer \in Address :
            LET out == approve(Storage, id, signer) IN
            (out.err = "Ok" /\ ~out.st.PendingTx[id].executed) =>
                out.st.Balance = Balance

\* an immediate transfer and a quorum-reaching approval between different
\* accounts both succeed here
C22_Witness ==
    /\ \E from \in Address, to \in Address :
            LET out == submit_transaction(Storage, from, to, 1, "pay", None, 0) IN
            from # to /\ out.err = "Ok" /\ out.ret = None
    /\ \E id \in PendingIds, signer \in Address :
            LET out == approve(Storage, id, signer) IN
            /\ PendingTx[id].from # PendingTx[id].to
            /\ out.err = "Ok"
            /\ out.st.PendingTx[id].executed

\* the error set_signers gives the administrator for a signer list and threshold
ConfigError(signers, threshold) == set_signers(Storage, Admin, signers, threshold).err

\* C23: set_signers reports a different error kind for each violated rule:
\* the error for an empty signer list, the error for a threshold outside
\* 1 .. number of signers and the error for a duplicate signer are three
\* pairwise different error values.
C23_DistinctConfigurationErrors ==
    Admin # NoAdmin =>
        \A empty \in ThresholdInputs :
        \A ranged \in SignerLists, bad \in ThresholdInputs :
        \A dup \in SignerLists, good \in ThresholdInputs :
            (/\ Len(ranged) > 0 /\ ~HasDuplicate(ranged)
             /\ bad \notin 1 .. Len(ranged)
             /\ HasDuplicate(dup) /\ good \in 1 .. Len(dup)) =>
                /\ ConfigError(<<>>, empty) # "Ok"
                /\ ConfigError(ranged, bad) # "Ok"
                /\ ConfigError(dup, good) # "Ok"
                /\ ConfigError(<<>>, empty) # ConfigError(ranged, bad)
                /\ ConfigError(<<>>, empty) # ConfigError(dup, good)
                /\ ConfigError(ranged, bad) # ConfigError(dup, good)


\* C23 (amended): set_signers reports two error kinds: InvalidThreshold for an
\* empty signer list and for a threshold outside 1 .. number of signers
\* (also when the list has a duplicate), DuplicateSigner for a duplicate
\* signer with a threshold in range; the two values differ and neither is a
\* success.
C23_TwoConfigurationErrors ==
    Admin # NoAdmin =>
        \A signers \in AllSignerLists, threshold \in AllThresholds :
            /\ Len(signers) = 0 => ConfigError(signers, threshold) = "InvalidThreshold"
            /\ threshold \notin 1 .. Len(signers)
                    => ConfigError(signers, threshold) = "InvalidThreshold"
            /\ (threshold \in 1 .. Len(signers) /\ HasDuplicate(signers))
                    => ConfigError(signers, threshold) = "DuplicateSigner"
            /\ ConfigError(signers, threshold) \in {"Ok", "InvalidThreshold", "DuplicateSigner"}
            /\ ConfigError(signers, threshold) = "Ok"
                    <=> (threshold \in 1 .. Len(signers) /\ ~HasDuplicate(signers))

\* a configured registry whose administrator's calls with an empty list, a
\* threshold out of range and a duplicate signer are refused
C23_Witness ==
    /\ Admin # NoAdmin
    /\ Threshold >= 1
    /\ ConfigError(<<>>, 1) = "InvalidThreshold"
    /\ ConfigError(<<"a1", "a2">>, 3) = "InvalidThreshold"
    /\ ConfigError(<<"a1", "a1">>, 3) = "InvalidThreshold"
    /\ ConfigError(<<"a1", "a1">>, 1) = "DuplicateSigner"

\* C24: set_high_value_threshold by the administrator with a negative amount
\* fails with InvalidAmount and leaves the stored threshold unchanged, and
\* with amount >= 0 replaces it; the stored high-value threshold is >= 0 in
\* every reachable state; with threshold 0 every positive-amount submit takes
\* the pending path (a pending record, or the pending path's refusal) and
\* moves no balance.
C24_HighValueThresholdValidation ==
    /\ HighValueThreshold >= 0
    /\ Admin # NoAdmin =>
          \A amount \in Amounts :
              LET out == set_high_value_threshold(Storage, Admin, amount) IN
              /\ amount < 0 => /\ out.err = "InvalidAmount"
                               /\ out.st = Storage
                               /\ After(out).HighValueThreshold = HighValueThreshold
              /\ amount >= 0 => /\ out.err = "Ok"
                                /\ get_high_value_threshold(out.st) = amount
                                /\ out.st = [Storage EXCEPT !.HighValueThreshold = amount]
    /\ HighValueThreshold = 0 =>
          \A from \in Address, to \in Address, amount \in 1 .. I128_MAX :
              LET out == submit_transaction(Storage, from, to, amount, "pay", None, 0) IN
              /\ After(out).Balance = Balance
              /\ \/ out.err = "Ok" /\ out.ret = Some(NextTxId + 1)
                                  /\ NextTxId + 1 \in DOMAIN out.st.PendingTx
                 \/ out.err = "MultisigNotConfigured"
                        /\ ensure_multisig_configured(Storage) # "Ok"
                 \/ out.err = "Overflow" /\ NextTxId = U64_MAX

\* the administrator has set the threshold to 0: a submission of amount 1
\* with a funded sender becomes a pending transaction
C24_Witness ==
    /\ HighValueThreshold = 0
    /\ set_high_value_threshold(Storage, Admin, -1).err = "InvalidAmount"
    /\ \E from \in Address, to \in Address :
            /\ Balance[from] >= 1
            /\ submit_transaction(Storage, from, to, 1, "pay", None, 0).ret # None

\* C26: a submit_transaction with a positive amount below the high-value
\* threshold creates no pending record, does not advance the id counter,
\* touches no approval mark or count, returns no id, and succeeds or fails as
\* the transfer alone does, whether or not the signer registry is configured.
C26_LowValueBypassesPendingStore ==
    \A from \in Address, to \in Address, amount \in Amounts :
        (amount > 0 /\ amount < HighValueThreshold) =>
            LET out == submit_transaction(Storage, from, to, amount, "pay", None, 0)
                t == execute_transfer(Storage, from, to, amount)
                unconfigured == [Storage EXCEPT !.Signers = <<>>, !.Threshold = 0]
                bare == submit_transaction(unconfigured, from, to, amount, "pay", None, 0)
            IN  /\ out.ret = None
                /\ out.st.PendingTx = PendingTx
                /\ out.st.NextTxId = NextTxId
                /\ out.st.Approval = Approval
                /\ out.st.ApprovalCount = ApprovalCount
                /\ out.err = t.err
                /\ out.st.Balance = t.st.Balance
                /\ bare.err = out.err
                /\ bare.st.Balance = out.st.Balance
                /\ (Balance[from] >= amount /\ Balance[to] + amount <= I128_MAX)
                        => out.err = "Ok"

\* no usable registry, and a low-value transfer between two accounts succeeds
C26_Witness ==
    /\ Admin # NoAdmin
    /\ ensure_multisig_configured(Storage) # "Ok"
    /\ \E from \in Address, to \in Address :
            /\ from # to
            /\ 1 < HighValueThreshold
            /\ submit_transaction(Storage, from, to, 1, "pay", None, 0).err = "Ok"

\* the number of executed events published so far that carry this id
ExecutedEventCount(id) == IF id \in DOMAIN ExecutedEvents THEN ExecutedEvents[id] ELSE 0
\* the events of a call with these first two topics
EventsNamed(events, a, b) ==
    {i \in 1 .. Len(events) : events[i].topics[1] = a /\ events[i].topics[2] = b}

\* C25: for every pending transaction id (id >= 1) the number of published
\* executed events carrying that id is 1 if the transaction is executed and 0
\* otherwise; every successful approve publishes exactly one approval event,
\* carrying the id, the signer and the new count; in the call that reaches
\* quorum the approval event precedes the one executed event, and a call that
\* does not reach it publishes no executed event; failed calls publish
\* nothing.
C25_ExecutionEvents ==
    /\ \A id \in 1 .. U64_MAX :
            ExecutedEventCount(id)
                = IF id \in PendingIds /\ PendingTx[id].executed THEN 1 ELSE 0
    /\ \A id \in TxIds, signer \in Address :
            LET out == approve(Storage, id, signer)
                published == After(out).Events
            IN  /\ out.err # "Ok" => published = <<>>
                /\ out.err = "Ok" =>
                    /\ Cardinality(EventsNamed(published, "approve", "record")) = 1
                    /\ published[1].topics = <<"approve", "record", id>>
                    /\ published[1].data
                            = <<signer, out.st.ApprovalCount[id], Threshold>>
                    /\ out.st.ApprovalCount[id] = ApprovalCount[id] + 1
                    /\ IF out.st.PendingTx[id].executed
                       THEN /\ Len(published) = 2
                            /\ published[2].topics = <<"tx", "executed", id>>
                            /\ published[2].data[1] = signer
                       ELSE Len(published) = 1
    /\ \A from \in Address, to \in Address, amount \in Amounts :
            LET out == submit_transaction(Storage, from, to, amount, "pay", None, 0)
                published == After(out).Events
            IN  /\ out.err # "Ok" => published = <<>>
                /\ out.err = "Ok" =>
                    /\ Len(published) = 1
                    /\ \A id \in 1 .. U64_MAX :
                            published[1].topics # <<"tx", "executed", id>>
    /\ \A caller \in Address, amount \in Amounts, user \in Address :
            /\ After(set_high_value_threshold(Storage, caller, amount)).Events = <<>>
            /\ After(set_balance(Storage, caller, user, amount)).Events = <<>>

\* a transaction executed by its second approval, with its one executed event
C25_Witness ==
    \E id \in PendingIds :
        /\ PendingTx[id].executed
        /\ ApprovalCount[id] = 2
        /\ ExecutedEventCount(id) = 1
        /\ \E signer \in SignerSet : approve(Storage, id, signer).err = "AlreadyExecuted"

\* ------------------------------------------------------------------ C27
\* the configuration throttles wallet w: stored, enabled, w not exempt
Throttling(s, w) ==
    /\ s.Config # None
    /\ get_throttle_config(s).enabled
    /\ ~Contains(get_throttle_config(s).exempt_addresses, w)

\* the calls of w already counted in the window the ledger time lies in
CountedInWindow(s, w) ==
    LET state == get_wallet_throttle_state(s, w) IN
    IF s.timestamp >= state.window_start + get_throttle_config(s).window_size_seconds
    THEN 0
    ELSE state.transaction_count

BlockDurationHolds(w) ==
    LET config == get_throttle_config(ThrottleStorage)
        T == WalletThrottleState[w].throttle_start_time
        out == check_transaction_throttle(ThrottleStorage, w)
        after == ThrottleAfter(out)
    IN  /\ out.err = "Ok"
        /\ IF ledger_timestamp < T + config.block_duration_seconds
           THEN /\ ~out.ret.allowed
                /\ Contains(after.Throttled, w)
                /\ after.Wallets[w] = WalletThrottleState[w]
           ELSE /\ out.ret.allowed
                /\ out.ret.reason = "Allowed"
                /\ ~Contains(after.Throttled, w)
                /\ ~after.Wallets[w].is_throttled

\* the stored state of w says it is throttled
IsThrottled(w) ==
    /\ w \in DOMAIN WalletThrottleState
    /\ WalletThrottleState[w].is_throttled

ViolationCount(s, w) == get_wallet_throttle_state(s, w).violation_count

\* C29: violation_count counts the times the wallet triggered throttling: a
\* check_transaction_throttle call rejected with ExceededFrequency adds one to
\* the wallet's violation_count and every other check leaves it as it was, also
\* the check that finds the block expired, so that the count keeps growing
\* across throttle periods (throttled, expired, throttled again gives 2).
C29_ViolationCountAccumulates ==
    \A w \in Wallets :
        ThrottleConfig # None
        => LET out == check_transaction_throttle(ThrottleStorage, w)
               triggered == out.ret.reason = "ExceededFrequency"
           IN  ViolationCount(ThrottleAfter(out), w)
                   = ViolationCount(ThrottleStorage, w) + (IF triggered THEN 1 ELSE 0)

\* ------------------------------------------------------------------ C30
\* C30: every check_transaction_throttle call for a non-exempt wallet while
\* throttling is enabled adds one to total_transactions_checked, whether it is
\* allowed, rejected with ExceededFrequency or rejected with
\* CurrentlyThrottled, and adds one to total_violations exactly when it is
\* rejected with ExceededFrequency.
C30_GlobalStatistics ==
    \A w \in Wallets :
        Throttling(ThrottleStorage, w)
        => LET out == check_transaction_throttle(ThrottleStorage, w)
               before == get_global_throttle_stats(ThrottleStorage)
               after == get_global_throttle_stats(ThrottleAfter(out))
               triggered == out.ret.reason = "ExceededFrequency"
           IN  /\ out.err = "Ok"
               /\ after.total_transactions_checked = before.total_transactions_checked + 1
               /\ after.total_violations
                      = before.total_violations + (IF triggered THEN 1 ELSE 0)

\* ------------------------------------------------------------------ C31
\* C31: a successful approve(id, s) adds exactly the one approval mark
\* (id, s), raises the approval count of id by exactly 1 and changes no mark
\* or count of another id; when the new count is below the threshold it
\* changes no balance and no pending record, so executed stays false.
C31_ApproveEffect ==
    \A id \in TxIds, s \in Address :
        LET out == approve(Storage, id, s) IN
        out.err = "Ok" =>
            /\ <<id, s>> \notin Approval
            /\ After(out).Approval = Approval \cup {<<id, s>>}
            /\ id \in DOMAIN ApprovalCount
            /\ After(out).ApprovalCount = [ApprovalCount EXCEPT ![id] = @ + 1]
            /\ After(out).ApprovalCount[id] < Threshold =>
                  /\ After(out).Balance = Balance
                  /\ After(out).PendingTx = PendingTx
                  /\ ~After(out).PendingTx[id].executed

\* two pending transactions under a threshold of two: a1 has approved the
\* first, which stays pending with count 1, and the second has no approval yet
\* and accepts one
C31_Witness ==
    /\ Threshold = 2
    /\ PendingIds = {1, 2}
    /\ Marks(1) = {"a1"} /\ ApprovalCount[1] = 1 /\ ~PendingTx[1].executed
    /\ Marks(2) = {} /\ ApprovalCount[2] = 0
    /\ approve(Storage, 2, "a2").err = "Ok"
    /\ approve(Storage, 2, "a2").st.ApprovalCount = (1 :> 1 @@ 2 :> 1)

\* ------------------------------------------------------------------ C32
\* C32: approvals are permanent: no step removes an approval mark and no step
\* lowers the approval count of an id, whatever is called, set_signers calls
\* that remove the approver from the signer list included.
C32_ApprovalsPermanent ==
    [][/\ Approval \subseteq Approval'
       /\ \A id \in DOMAIN ApprovalCount :
             /\ id \in DOMAIN ApprovalCount'
             /\ ApprovalCount'[id] >= ApprovalCount[id]]_vars

\* a3 approved transaction 1 and was then removed from the signer list: its
\* mark and the count are still there, on a transaction that is still pending
C32_Witness ==
    /\ 1 \in PendingIds
    /\ ~PendingTx[1].executed
    /\ has_approval(Storage, 1, "a3")
    /\ ~is_signer(Storage, "a3")
    /\ ensure_multisig_configured(Storage) = "Ok"
    /\ ApprovalCount[1] = 1

\* ------------------------------------------------------------------ C33
\* the record, approval marks and approval count of id in storage s
PendingStateOf(s, id) ==
    <<s.PendingTx[id], {a \in Address : <<id, a>> \in s.Approval},
      s.ApprovalCount[id]>>

\* the call with this outcome leaves the pending state of id as it is
Keeps(out, id) ==
    /\ id \in DOMAIN After(out).PendingTx
    /\ id \in DOMAIN After(out).ApprovalCount
    /\ PendingStateOf(After(out), id) = PendingStateOf(Storage, id)

\* C33: the record, marks and count of a pending transaction id are left
\* unchanged by every initialize, submit_transaction, set_signers,
\* set_high_value_threshold and set_balance call and by every approve on
\* another id (only approve on id itself changes them), and a successful
\* set_signers changes the signer list and threshold and nothing else.
C33_PendingFrame ==
    /\ \A id \in PendingIds :
          /\ \A admin \in Address : Keeps(initialize_state(Storage, admin), id)
          /\ \A from \in Address, to \in Address, amount \in Amounts :
                Keeps(submit_transaction(Storage, from, to, amount, "pay", None, 0), id)
          /\ \A other \in TxIds \ {id}, signer \in Address :
                Keeps(approve(Storage, other, signer), id)
          /\ \A caller \in Address, signers \in SignerLists, threshold \in ThresholdInputs :
                Keeps(set_signers(Storage, caller, signers, threshold), id)
          /\ \A caller \in Address, amount \in Amounts :
                Keeps(set_high_value_threshold(Storage, caller, amount), id)
          /\ \A caller \in Address, user \in Address, amount \in Amounts :
                Keeps(set_balance(Storage, caller, user, amount), id)
    /\ \A caller \in Address, signers \in SignerLists, threshold \in ThresholdInputs :
          LET out == set_signers(Storage, caller, signers, threshold) IN
          out.err = "Ok" =>
              After(out) = [Storage EXCEPT !.Signers = signers,
                                           !.Threshold = threshold]

\* transaction 1 got one approval under a threshold of two; set_signers then
\* lowered the threshold to one and an approve on transaction 2 executed it:
\* transaction 1 is still pending with its one mark
C33_Witness ==
    /\ PendingIds = {1, 2}
    /\ Threshold = 1
    /\ ~PendingTx[1].executed
    /\ Marks(1) = {"a1"} /\ ApprovalCount[1] = 1
    /\ PendingTx[2].executed
    /\ Marks(2) = {"a2"} /\ ApprovalCount[2] = 1

\* ------------------------------------------------------------------ C34
\* the registry is configured and id is a non-executed pending transaction
\* whose transfer can be applied to the balances as they are
Completable(id) ==
    /\ id \in PendingIds
    /\ ~PendingTx[id].executed
    /\ ensure_multisig_configured(Storage) = "Ok"
    /\ execute_transfer(Storage, PendingTx[id].from, PendingTx[id].to,
                        PendingTx[id].amount).err = "Ok"

\* C34: from every reachable state where the registry is configured and a
\* non-executed pending transaction can be paid from its sender's balance, if
\* from then on the registry and the balances stay fixed (only approve calls
\* are made) and every signer keeps attempting approve on it, the transaction
\* is eventually executed.
C34_PendingCompletes ==
    \A id \in 1 .. MaxPending :
        (frozen /\ Completable(id)) ~> (id \in PendingIds /\ PendingTx[id].executed)

\* ------------------------------------------------------------------ C35
\* the call with this outcome lowers the balance of account x
Debits(out, x) == After(out).Balance[x] < Balance[x]

\* C35: an account's balance decreases only (a) in a successful
\* submit_transaction with that account as the authorising sender and an
\* amount below the high-value threshold, (b) in the approve call that reaches
\* quorum on a pending transaction whose sender is that account, or (c) in a
\* set_balance call by the admin; no other call lowers it, and a first
\* approval under a threshold above 1 lowers no balance.
C35_DebitsNeedAuthority ==
    \A x \in Address :
        /\ \A from \in Address, to \in Address, amount \in Amounts :
              LET out == submit_transaction(Storage, from, to, amount, "pay", None, 0) IN
              Debits(out, x) =>
                  /\ from = x
                  /\ amount < HighValueThreshold
                  /\ out.err = "Ok" /\ out.ret = None
        /\ \A id \in TxIds, signer \in Address :
              LET out == approve(Storage, id, signer) IN
              /\ Debits(out, x) =>
                    /\ is_signer(Storage, signer)
                    /\ id \in PendingIds
                    /\ PendingTx[id].from = x
                    /\ ~PendingTx[id].executed
                    /\ After(out).PendingTx[id].executed
                    /\ After(out).ApprovalCount[id] >= Threshold
              /\ (Threshold > 1 /\ get_approval_count(Storage, id) = 0)
                    => After(out).Balance = Balance
        /\ \A caller \in Address, user \in Address, amount \in Amounts :
              Debits(set_balance(Storage, caller, user, amount), x)
                  => caller = Admin /\ user = x
        /\ \A admin \in Address : ~Debits(initialize_state(Storage, admin), x)
        /\ \A caller \in Address, signers \in SignerLists, threshold \in ThresholdInputs :
              ~Debits(set_signers(Storage, caller, signers, threshold), x)
        /\ \A caller \in Address, amount \in Amounts :
              ~Debits(set_high_value_threshold(Storage, caller, amount), x)

\* a transaction sent by a1 waits with one of two approvals, a1 still holding
\* its funds: the second signer's approve debits a1, a caller outside the
\* registry cannot, and a2 cannot debit a1 by submitting in a1's place
C35_Witness ==
    /\ Threshold = 2
    /\ 1 \in PendingIds
    /\ PendingTx[1].from = "a1" /\ PendingTx[1].to = "a2"
    /\ ~PendingTx[1].executed
    /\ ApprovalCount[1] = 1
    /\ \E s \in SignerSet : Debits(approve(Storage, 1, s), "a1")
    /\ \E s \in Address \ SignerSet : ~Debits(approve(Storage, 1, s), "a1")
    /\ ~Debits(submit_transaction(Storage, "a2", "a1", 1, "pay", None, 0), "a1")

\* ------------------------------------------------------------------ C36
\* C36: on a contract without admin, initialize stores the admin and the
\* unconfigured defaults (empty signer list, threshold 0, high-value threshold
\* at the maximum amount, id counter 0) and touches nothing else; once an admin
\* is stored every initialize call fails with AlreadyInitialized and writes
\* nothing, and no step changes the admin.
C36_InitialiseOnce ==
    /\ [](\A admin \in Address :
            LET out == initialize_state(Storage, admin) IN
            IF Admin = NoAdmin
            THEN /\ out.err = "Ok"
                 /\ After(out) = [Storage EXCEPT !.Admin = admin, !.Signers = <<>>,
                                                 !.Threshold = 0,
                                                 !.HighValueThreshold = I128_MAX,
                                                 !.NextTxId = 0]
            ELSE /\ out.err = "AlreadyInitialized"
                 /\ out.st = Storage
                 /\ After(out) = Storage)
    /\ [][Admin # NoAdmin => Admin' = Admin]_vars

\* the contract was initialised by a1 and configured since (signers, a lower
\* high-value threshold, one id allocated): another account's initialize is
\* rejected
C36_Witness ==
    /\ Admin = "a1"
    /\ Signers # <<>> /\ Threshold > 0
    /\ HighValueThreshold < I128_MAX
    /\ NextTxId = 1
    /\ initialize_state(Storage, "a2").err = "AlreadyInitialized"

\* ------------------------------------------------------------------ C37
\* C37: in every reachable state the ids with a pending record are exactly
\* 1 .. NextTxId, each of them has a stored approval count, and no approval
\* mark or count exists for another id; a submit_transaction that fails or
\* that takes the immediate path leaves the id counter as it is, and one that
\* returns Some(id) advances it by one to id.
C37_IdsGapFree ==
    /\ PendingIds = 1 .. NextTxId
    /\ DOMAIN ApprovalCount = 1 .. NextTxId
    /\ \A m \in Approval : m[1] \in 1 .. NextTxId
    /\ \A from \in Address, to \in Address, amount \in Amounts :
          LET out == submit_transaction(Storage, from, to, amount, "pay", None, 0) IN
          IF out.err = "Ok" /\ out.ret # None
          THEN /\ out.ret = Some(NextTxId + 1)
               /\ After(out).NextTxId = NextTxId + 1
               /\ DOMAIN After(out).PendingTx = 1 .. NextTxId + 1
          ELSE /\ After(out).NextTxId = NextTxId
               /\ DOMAIN After(out).PendingTx = PendingIds

\* ids 1 and 2 are pending and carry approvals; a low-value submission is
\* accepted here and one with amount 0 is rejected, and neither takes an id
C37_Witness ==
    /\ NextTxId = 2
    /\ PendingIds = {1, 2}
    /\ ~PendingTx[1].executed /\ ~PendingTx[2].executed
    /\ Marks(1) # {} /\ Marks(2) # {}
    /\ HighValueThreshold = 2
    /\ Balance["a1"] >= 1
    /\ submit_transaction(Storage, "a1", "a2", 1, "pay", None, 0).ret = None
    /\ submit_transaction(Storage, "a1", "a2", 1, "pay", None, 0).err = "Ok"
    /\ submit_transaction(Storage, "a1", "a2", 0, "pay", None, 0).err = "InvalidAmount"

====
